---- MODULE Spec2Model ----
(***************************************************************************)
(* Design Challenge Coach: the session state machine of src/app/page.tsx   *)
(* (phase timer, transcript, coverage tags, speech capture, coach and      *)
(* evaluation requests) together with the coach and evaluate API routes.   *)
(*                                                                         *)
(* Text is a sequence of strings.  What a participant says or types is a   *)
(* sequence of one-character strings, so that toLowerCase and includes are *)
(* computed character by character; a coach message is a sequence of       *)
(* message fragments.                                                      *)
(***************************************************************************)
EXTENDS Integers, Sequences, FiniteSets, TLC

VARIABLES
  phase,           \* useState<Phase>                         page.tsx:48
  timeLeft,        \* useState(PHASE_DURATIONS['Discovery'])  page.tsx:49
  isRunning,       \* useState(false), true after mount       page.tsx:50
  ticks,           \* interval callbacks run since the countdown was last (re)started
  prompt,          \* useState(prompt)                        page.tsx:52
  screenshots,     \* screenshots.length                      page.tsx:70
  transcript,      \* useState<Message[]>                     page.tsx:56
  coverageTags,    \* useState<CoverageTags>                  page.tsx:57
  isRecording,     \* useState(false)                         page.tsx:67
  isRecordingRef,  \* useRef(false)                           page.tsx:76
  recognitionRef,  \* useRef<any>(null): 0 is null            page.tsx:73
  sessions,        \* the SpeechRecognition objects created by startRecording
  segments,        \* per object, the calls of recognition.start() on it
  heard,           \* per object, the final results the backend has not delivered yet
  spoken,          \* the utterances completed while an object was listening
  isSpeaking,      \* useState(false)                         page.tsx:68
  isMuted,         \* useState(false)                         page.tsx:69
  ttsCalls,        \* fetch('/api/tts') calls not yet settled
  audio,           \* the <audio> element of audioRef         page.tsx:625
  objectUrls,      \* the object URLs created and not revoked
  urlsCreated,     \* URL.createObjectURL calls so far
  coachCalls,      \* fetch('/api/coach') calls not yet settled
  evalCalls,       \* fetch('/api/evaluate') calls not yet settled
  alert,           \* the last window.alert of endAndDebrief
  det              \* inputs and results of the coverage detector run on its own

vars == <<phase, timeLeft, isRunning, ticks, prompt, screenshots, transcript,
          coverageTags, isRecording, isRecordingRef, recognitionRef, sessions,
          segments, heard, spoken, isSpeaking, isMuted, ttsCalls, audio,
          objectUrls, urlsCreated, coachCalls, evalCalls, alert, det>>

timerVars   == <<phase, timeLeft, isRunning, ticks>>
captureVars == <<isRecording, isRecordingRef, recognitionRef, sessions,
                 segments, heard, spoken>>
playbackVars == <<audio, objectUrls, urlsCreated>>
speechVars  == <<isSpeaking, isMuted, ttsCalls, audio, objectUrls, urlsCreated>>

(***************************************************************************)
(* Bounds of the model.                                                    *)
(***************************************************************************)
\* turns the transcript may hold (the welcome turn included)
MaxTurns == 3
\* fetch calls of one kind that may be outstanding together
MaxInFlight == 1
\* SpeechRecognition objects alive together
MaxSessions == 2
\* interval callbacks per countdown in the specifications that bound the clock
MaxTicks == 2
\* screenshots uploaded
MaxScreenshots == 1
\* length of the strings the detector is run on by itself
MaxStrLen == 3
\* calls of recognition.start() on one SpeechRecognition object
MaxSegments == 3
\* final results one SpeechRecognition object may hold undelivered
MaxPending == 1
\* fetch calls of one kind outstanding together where the buttons are pressed again
MaxOverlap == 2

(***************************************************************************)
(* Phases and their durations.                                             *)
(***************************************************************************)
Phases == {"Discovery", "Heads-down", "Presentation"}

PHASE_DURATIONS ==
  [p \in Phases |-> CASE p = "Discovery"    -> 20 * 60
                      [] p = "Heads-down"   -> 25 * 60
                      [] p = "Presentation" -> 15 * 60]

(***************************************************************************)
(* Strings.                                                                *)
(***************************************************************************)
UpperChars == <<"A","B","C","D","E","F","G","H","I","J","K","L","M",
                "N","O","P","Q","R","S","T","U","V","W","X","Y","Z">>
LowerChars == <<"a","b","c","d","e","f","g","h","i","j","k","l","m",
                "n","o","p","q","r","s","t","u","v","w","x","y","z">>

\* String.prototype.toLowerCase, one character
toLowerChar(c) ==
  IF \E i \in DOMAIN UpperChars : UpperChars[i] = c
  THEN LowerChars[CHOOSE i \in DOMAIN UpperChars : UpperChars[i] = c]
  ELSE c

\* String.prototype.toLowerCase
toLowerCase(s) == [i \in 1..Len(s) |-> toLowerChar(s[i])]

\* String.prototype.includes: kw occurs in s as a contiguous substring
includesAtStart(s, kw) ==
  Len(kw) <= Len(s) /\ \A j \in 1..Len(kw) : s[j] = kw[j]

includes(s, kw) ==
  \E i \in 0..(Len(s) - Len(kw)) :
    \A j \in 1..Len(kw) : s[i + j] = kw[j]

\* String.prototype.trim() is non-empty: some character is not white space
trimNonEmpty(s) == \E i \in 1..Len(s) : s[i] # " "

\* Array.prototype.join
RECURSIVE join(_, _)
join(list, sep) ==
  IF Len(list) = 0 THEN <<>>
  ELSE IF Len(list) = 1 THEN <<list[1]>>
  ELSE <<list[1], sep>> \o join(Tail(list), sep)

(***************************************************************************)
(* Coverage detector: updateCoverageTags.                                  *)
(***************************************************************************)
allTags == <<"framing", "constraints", "users", "ideation", "systems",
             "metrics", "accessibility">>

TagSet == {allTags[i] : i \in DOMAIN allTags}

Keywords ==
  [tag \in TagSet |->
     CASE tag = "framing"       -> { <<"g","o","a","l">>,
                                     <<"p","r","o","b","l","e","m">> }
       [] tag = "constraints"   -> { <<"c","o","n","s","t","r","a","i","n","t">>,
                                     <<"l","i","m","i","t">> }
       [] tag = "users"         -> { <<"u","s","e","r">>,
                                     <<"p","e","r","s","o","n","a">> }
       [] tag = "ideation"      -> { <<"i","d","e","a">>,
                                     <<"a","p","p","r","o","a","c","h">> }
       [] tag = "systems"       -> { <<"s","t","a","t","e">>,
                                     <<"f","l","o","w">>,
                                     <<"e","r","r","o","r">> }
       [] tag = "metrics"       -> { <<"m","e","t","r","i","c">>,
                                     <<"k","p","i">>,
                                     <<"e","x","p","e","r","i","m","e","n","t">> }
       [] tag = "accessibility" -> { <<"a","c","c","e","s","s","i","b","i","l","i","t","y">>,
                                     <<"w","c","a","g">> }]

\* the keys of `updates` in updateCoverageTags
detectUpdates(text) ==
  LET lowerText == toLowerCase(text)
  IN  {tag \in TagSet : \E kw \in Keywords[tag] : includes(lowerText, kw)}

\* setCoverageTags(prev => ({ ...prev, ...updates })), skipped when updates is empty
mergeTagsReplace(prev, updates) ==
  IF updates # {} THEN [tag \in TagSet |-> tag \in updates] ELSE prev

mergeTags(prev, updates) ==
  IF updates # {}
  THEN [tag \in TagSet |-> IF tag \in updates THEN TRUE ELSE prev[tag]]
  ELSE prev

updateCoverageTags(text) ==
  coverageTags' = mergeTags(coverageTags, detectUpdates(text))

NoCoverage == [tag \in TagSet |-> FALSE]

(***************************************************************************)
(* Messages.                                                               *)
(***************************************************************************)
introMessage == <<"Welcome to your design challenge. We're starting with Discovery phase. Focus on understanding the problem space, constraints, and users. Remember the strong constraint in the prompt - keep it central to your thinking.">>

defaultPrompt == "Design a collaboration tool that works fully offline for 24 hours. Strong constraint: No background sync during offline period."

Prompts == {defaultPrompt, ""}

U_USER == <<"O","u","r"," ","m","a","i","n"," ","u","s","e","r"," ","i","s"," ",
            "a"," ","b","u","s","y"," ","p","a","r","e","n","t">>
U_GOAL == <<"G","O","A","L"," ","l","i","m","i","t">>
U_ALL  == <<"G","o","a","l"," ","L","I","M","I","T"," ","u","s","e","r"," ",
            "I","d","e","a"," ","f","l","o","w"," ","K","P","I"," ","w","c","a","g">>
U_NONE == <<"o","k">>
U_BLANK == <<" "," ">>

\* what the recognition backend may hear
Utterances == {U_USER, U_ALL, U_NONE}
\* what may be in the text box when it is submitted
TextInputs == Utterances \cup {U_BLANK}

Message(role, text) == [role |-> role, text |-> text]


(***************************************************************************)
(* The state after the first render and its mount effect (page.tsx:111):   *)
(* the welcome turn is in the transcript, speakText(introMessage) has set  *)
(* the speaking flag and sent its synthesis request, the timer is running. *)
(***************************************************************************)
SessionIds == 1..MaxSessions

NoDetect == [a |-> <<>>, b |-> <<>>, ran |-> FALSE, onA |-> {}, onB |-> {}, onAB |-> {}]

NoAlert == [text |-> "", shown |-> "", of |-> ""]

\* the audio element before any src is set: 0 is no object URL
NoAudio == [src |-> 0, playing |-> FALSE]

InitSession ==
  /\ phase = "Discovery"
  /\ timeLeft = PHASE_DURATIONS["Discovery"]
  /\ isRunning = TRUE
  /\ ticks = 0
  /\ prompt = defaultPrompt
  /\ screenshots = 0
  /\ transcript = <<Message("Coach", introMessage)>>
  /\ coverageTags = NoCoverage
  /\ isRecording = FALSE
  /\ isRecordingRef = FALSE
  /\ recognitionRef = 0
  /\ sessions = [s \in SessionIds |-> "none"]
  /\ segments = [s \in SessionIds |-> 0]
  /\ heard = [s \in SessionIds |-> <<>>]
  /\ spoken = <<>>
  /\ isSpeaking = TRUE
  /\ isMuted = FALSE
  /\ ttsCalls = <<[text |-> introMessage, stage |-> "sent", status |-> 0]>>
  /\ audio = NoAudio
  /\ objectUrls = {}
  /\ urlsCreated = 0
  /\ coachCalls = <<>>
  /\ evalCalls = <<>>
  /\ alert = NoAlert

Init == InitSession /\ det = NoDetect

(***************************************************************************)
(* Phase timer.                                                            *)
(***************************************************************************)
\* the updater of setTimeLeft in the interval callback, with the state
\* updates it makes itself: <<phase, timeLeft, isRunning>> after the callback
tickUpdaterLate(ph, prev, running) ==
  IF prev <= 0
  THEN CASE ph = "Discovery"  -> <<"Heads-down", PHASE_DURATIONS["Heads-down"], running>>
         [] ph = "Heads-down" -> <<"Presentation", PHASE_DURATIONS["Presentation"], running>>
         [] OTHER             -> <<ph, 0, FALSE>>
  ELSE <<ph, prev - 1, running>>

tickUpdaterStopsOnAdvance(ph, prev, running) ==
  IF prev <= 1
  THEN CASE ph = "Discovery"  -> <<"Heads-down", PHASE_DURATIONS["Heads-down"], FALSE>>
         [] ph = "Heads-down" -> <<"Presentation", PHASE_DURATIONS["Presentation"], FALSE>>
         [] OTHER             -> <<ph, 0, FALSE>>
  ELSE <<ph, prev - 1, running>>

tickUpdater(ph, prev, running) ==
  IF prev <= 1
  THEN CASE ph = "Discovery"  -> <<"Heads-down", PHASE_DURATIONS["Heads-down"], running>>
         [] ph = "Heads-down" -> <<"Presentation", PHASE_DURATIONS["Presentation"], running>>
         [] OTHER             -> <<ph, 0, FALSE>>
  ELSE <<ph, prev - 1, running>>

\* one callback of setInterval(..., 1000); the effect installs it only while running
TimerTick ==
  /\ isRunning
  /\ LET next == tickUpdater(phase, timeLeft, isRunning)
     IN  /\ phase' = next[1]
         /\ timeLeft' = next[2]
         /\ isRunning' = next[3]
  /\ ticks' = ticks + 1
  /\ UNCHANGED <<prompt, screenshots, transcript, coverageTags, captureVars,
                 speechVars, coachCalls, evalCalls, alert, det>>

\* the phase buttons
changePhaseKeepsStopped(newPhase) ==
  /\ phase' = newPhase
  /\ timeLeft' = PHASE_DURATIONS[newPhase]
  /\ isRunning' = isRunning
  /\ ticks' = 0
  /\ UNCHANGED <<prompt, screenshots, transcript, coverageTags, captureVars,
                 speechVars, coachCalls, evalCalls, alert, det>>

changePhaseRewritesSent(newPhase) ==
  /\ phase' = newPhase
  /\ timeLeft' = PHASE_DURATIONS[newPhase]
  /\ isRunning' = TRUE
  /\ ticks' = 0
  /\ coachCalls' = [i \in DOMAIN coachCalls |->
                      IF coachCalls[i].stage = "sent"
                      THEN [coachCalls[i] EXCEPT !.body.phase = newPhase]
                      ELSE coachCalls[i]]
  /\ UNCHANGED <<prompt, screenshots, transcript, coverageTags, captureVars,
                 speechVars, evalCalls, alert, det>>

changePhase(newPhase) ==
  /\ phase' = newPhase
  /\ timeLeft' = PHASE_DURATIONS[newPhase]
  /\ isRunning' = TRUE
  /\ ticks' = 0
  /\ UNCHANGED <<prompt, screenshots, transcript, coverageTags, captureVars,
                 speechVars, coachCalls, evalCalls, alert, det>>

(***************************************************************************)
(* Prompt box and screenshot upload.                                       *)
(***************************************************************************)
setPrompt(value) ==
  /\ prompt # value
  /\ prompt' = value
  /\ UNCHANGED <<timerVars, screenshots, transcript, coverageTags, captureVars,
                 speechVars, coachCalls, evalCalls, alert, det>>

\* reader.onload of one uploaded file
handleScreenshotUpload ==
  /\ screenshots < MaxScreenshots
  /\ screenshots' = screenshots + 1
  /\ UNCHANGED <<timerVars, prompt, transcript, coverageTags, captureVars,
                 speechVars, coachCalls, evalCalls, alert, det>>

(***************************************************************************)
(* Transcript: participant turns.                                          *)
(***************************************************************************)
CanAppend == Len(transcript) < MaxTurns

addUserMessageNoDetect(text) ==
  /\ transcript' = Append(transcript, Message("You", text))
  /\ UNCHANGED coverageTags

addUserMessage(text) ==
  /\ transcript' = Append(transcript, Message("You", text))
  /\ updateCoverageTags(text)

\* the Send button and the Enter key, with `text` in the text box
handleTextSubmit(text) ==
  /\ CanAppend
  /\ IF trimNonEmpty(text)
     THEN addUserMessage(text)
     ELSE UNCHANGED <<transcript, coverageTags>>
  /\ UNCHANGED <<timerVars, prompt, screenshots, captureVars, speechVars,
                 coachCalls, evalCalls, alert, det>>

(***************************************************************************)
(* Speech capture.  A SpeechRecognition object is "none" (not created, or  *)
(* ended for good), "listening", "stopping" (stop() called: the backend    *)
(* may still deliver the result of the audio captured so far, and then its *)
(* end event), "flushed" (that result delivered, end event due) or         *)
(* "aborting" (error delivered, end event due).  The participant's speech  *)
(* is an event of its own: every object that is listening hears a          *)
(* completed utterance, and the backend delivers it later as a result.     *)
(***************************************************************************)
FreeSession == CHOOSE s \in SessionIds :
                 sessions[s] = "none" /\ \A r \in SessionIds : sessions[r] = "none" => s <= r

\* the record button while not recording
startRecording ==
  /\ ~isRecording
  /\ \E s \in SessionIds : sessions[s] = "none"
  /\ sessions' = [sessions EXCEPT ![FreeSession] = "listening"]
  /\ segments' = [segments EXCEPT ![FreeSession] = 1]
  /\ recognitionRef' = FreeSession
  /\ isRecordingRef' = TRUE
  /\ isRecording' = TRUE
  /\ UNCHANGED <<heard, spoken>>
  /\ UNCHANGED <<timerVars, prompt, screenshots, transcript, coverageTags,
                 speechVars, coachCalls, evalCalls, alert, det>>

\* the record button while recording
stopRecording ==
  /\ isRecording
  /\ isRecordingRef' = FALSE
  /\ IF recognitionRef # 0
     THEN /\ sessions' = [sessions EXCEPT ![recognitionRef] =
                            IF @ = "listening" THEN "stopping" ELSE @]
          /\ recognitionRef' = 0
     ELSE UNCHANGED <<sessions, recognitionRef>>
  /\ isRecording' = FALSE
  /\ UNCHANGED <<segments, heard, spoken>>
  /\ UNCHANGED <<timerVars, prompt, screenshots, transcript, coverageTags,
                 speechVars, coachCalls, evalCalls, alert, det>>

\* recognition.onresult of object s, the backend delivering a final result
\* (the oldest it holds for s, when it holds one)
onresult(s, text) ==
  /\ sessions[s] \in {"listening", "stopping"}
  /\ CanAppend
  /\ addUserMessage(text)
  /\ sessions' = [sessions EXCEPT ![s] = IF @ = "stopping" THEN "flushed" ELSE @]
  /\ heard' = [heard EXCEPT ![s] = IF @ = <<>> THEN @ ELSE Tail(@)]
  /\ UNCHANGED <<segments, spoken>>
  /\ UNCHANGED <<timerVars, prompt, screenshots, isRecording, isRecordingRef,
                 recognitionRef, speechVars, coachCalls, evalCalls, alert, det>>

\* recognition.onerror of object s
onerror(s) ==
  /\ sessions[s] = "listening"
  /\ isRecordingRef' = FALSE
  /\ isRecording' = FALSE
  /\ sessions' = [sessions EXCEPT ![s] = "aborting"]
  /\ heard' = [heard EXCEPT ![s] = <<>>]
  /\ UNCHANGED <<segments, spoken>>
  /\ UNCHANGED <<timerVars, prompt, screenshots, transcript, coverageTags,
                 recognitionRef, speechVars, coachCalls, evalCalls, alert, det>>

\* recognition.onend of object s
onendNoRestart(s) ==
  /\ sessions[s] \in {"listening", "stopping", "flushed", "aborting"}
  /\ sessions' = [sessions EXCEPT ![s] = "none"]
  /\ segments' = [segments EXCEPT ![s] = 0]
  /\ heard' = [heard EXCEPT ![s] = <<>>]
  /\ UNCHANGED spoken
  /\ UNCHANGED <<timerVars, prompt, screenshots, transcript, coverageTags,
                 isRecording, isRecordingRef, recognitionRef, speechVars,
                 coachCalls, evalCalls, alert, det>>

onend(s) ==
  /\ sessions[s] \in {"listening", "stopping", "flushed", "aborting"}
  /\ sessions' = [sessions EXCEPT ![s] =
                    IF isRecordingRef THEN "listening" ELSE "none"]
  /\ segments' = [segments EXCEPT ![s] = IF isRecordingRef THEN @ + 1 ELSE 0]
  /\ heard' = [heard EXCEPT ![s] = <<>>]
  /\ UNCHANGED spoken
  /\ UNCHANGED <<timerVars, prompt, screenshots, transcript, coverageTags,
                 isRecording, isRecordingRef, recognitionRef, speechVars,
                 coachCalls, evalCalls, alert, det>>

\* the participant completes an utterance: the backend of every listening
\* object holds it as a final result (event.results[last][0].transcript)
utter(text) ==
  /\ \E s \in SessionIds : sessions[s] = "listening"
  /\ heard' = [s \in SessionIds |->
                IF sessions[s] = "listening" THEN Append(heard[s], text) ELSE heard[s]]
  /\ spoken' = Append(spoken, text)
  /\ UNCHANGED <<timerVars, prompt, screenshots, transcript, coverageTags,
                 isRecording, isRecordingRef, recognitionRef, sessions, segments,
                 speechVars, coachCalls, evalCalls, alert, det>>

(***************************************************************************)
(* Requests.  The body of a coach or evaluation request is the JSON of     *)
(* {phase, prompt, transcript, coverageTags, screenshotCount}; `absent`    *)
(* names the fields a request from elsewhere leaves out (the page sends    *)
(* them all).  A call is "sent" until the route has answered or the fetch  *)
(* has failed, and then "settled" until the page's continuation runs.      *)
(* status 0 is a fetch that rejected.                                      *)
(***************************************************************************)
RemoveAt(seq, i) == SubSeq(seq, 1, i - 1) \o SubSeq(seq, i + 1, Len(seq))

requestBody ==
  [phase |-> phase, prompt |-> prompt, transcript |-> transcript,
   coverageTags |-> coverageTags, screenshotCount |-> screenshots,
   absent |-> {}]

\* the body of a call once the route has read it
NoBody ==
  [phase |-> "", prompt |-> "", transcript |-> <<>>, coverageTags |-> NoCoverage,
   screenshotCount |-> 0, absent |-> {}]

NoReply ==
  [status |-> 0, error |-> "", nudge |-> <<>>, coverageNudge |-> <<>>,
   missingTags |-> <<>>, modelCalled |-> FALSE, raw |-> "", evaluation |-> ""]

\* what the Gemini model may answer to the coach route
Nudges == { <<"What does success look like for the person using this?">> }

\* what the Gemini model may answer to the evaluate route: JSON of the whole
\* schema, JSON without the rubric field, or text that is no JSON
ModelTexts == {"{rubric,strengths,weaknesses,drills,narrative}",
               "{strengths,weaknesses,drills,narrative}",
               "Here is my evaluation"}

isJSON(text) == text \in {"{rubric,strengths,weaknesses,drills,narrative}",
                          "{strengths,weaknesses,drills,narrative}"}

hasRubric(text) == text = "{rubric,strengths,weaknesses,drills,narrative}"

(***************************************************************************)
(* Speech playback.  `muted` is the isMuted of the render whose closure    *)
(* runs.  A synthesis call is "sent" until the route has answered or the   *)
(* fetch has failed (status 0), and then "settled" until speakText goes on. *)
(***************************************************************************)
\* speakText up to the await of fetch
speakText(muted, text) ==
  IF muted
  THEN UNCHANGED <<isSpeaking, ttsCalls, playbackVars>>
  ELSE /\ isSpeaking' = TRUE
       /\ ttsCalls' = Append(ttsCalls, [text |-> text, stage |-> "sent", status |-> 0])
       /\ UNCHANGED playbackVars

\* the status of POST /api/tts for `text`, generateContent succeeding or throwing
ttsPOST(text, generated) ==
  IF text = <<>> THEN 400
  ELSE IF generated THEN 200
  ELSE 500

\* the tts route handles call i
ttsRoute(i, generated) ==
  /\ ttsCalls[i].stage = "sent"
  /\ ttsCalls' = [ttsCalls EXCEPT ![i].stage = "settled",
                                  ![i].status = ttsPOST(ttsCalls[i].text, generated)]
  /\ UNCHANGED <<timerVars, prompt, screenshots, transcript, coverageTags,
                 captureVars, isSpeaking, isMuted, playbackVars, coachCalls,
                 evalCalls, alert, det>>

\* the fetch of call i rejects
ttsFetchFails(i) ==
  /\ ttsCalls[i].stage = "sent"
  /\ ttsCalls' = [ttsCalls EXCEPT ![i].stage = "settled", ![i].status = 0]
  /\ UNCHANGED <<timerVars, prompt, screenshots, transcript, coverageTags,
                 captureVars, isSpeaking, isMuted, playbackVars, coachCalls,
                 evalCalls, alert, det>>

\* speakText after its awaits, for the settled call i; `played` is whether
\* audio.play() resolves (it rejects when the browser refuses or aborts playback)
speakTextResumeKeepsFlag(i, played) ==
  /\ ttsCalls[i].stage = "settled"
  /\ ttsCalls' = RemoveAt(ttsCalls, i)
  /\ IF ttsCalls[i].status # 200
     THEN /\ played
          /\ UNCHANGED isSpeaking
          /\ UNCHANGED playbackVars
     ELSE LET audioUrl == urlsCreated + 1
          IN  /\ urlsCreated' = audioUrl
              /\ objectUrls' = objectUrls \cup {audioUrl}
              /\ audio' = [src |-> audioUrl, playing |-> played]
              /\ UNCHANGED isSpeaking
  /\ UNCHANGED <<timerVars, prompt, screenshots, transcript, coverageTags,
                 captureVars, isMuted, coachCalls, evalCalls, alert, det>>

speakTextResume(i, played) ==
  /\ ttsCalls[i].stage = "settled"
  /\ ttsCalls' = RemoveAt(ttsCalls, i)
  /\ IF ttsCalls[i].status # 200
     THEN /\ played
          /\ isSpeaking' = FALSE
          /\ UNCHANGED playbackVars
     ELSE LET audioUrl == urlsCreated + 1
          IN  /\ urlsCreated' = audioUrl
              /\ objectUrls' = objectUrls \cup {audioUrl}
              /\ audio' = [src |-> audioUrl, playing |-> played]
              /\ isSpeaking' = IF played THEN isSpeaking ELSE FALSE
  /\ UNCHANGED <<timerVars, prompt, screenshots, transcript, coverageTags,
                 captureVars, isMuted, coachCalls, evalCalls, alert, det>>

\* audio.onended, as set by the speakText that set audio.src
onended ==
  /\ audio.playing
  /\ isSpeaking' = FALSE
  /\ objectUrls' = objectUrls \ {audio.src}
  /\ audio' = [audio EXCEPT !.playing = FALSE]
  /\ UNCHANGED <<timerVars, prompt, screenshots, transcript, coverageTags,
                 captureVars, isMuted, ttsCalls, urlsCreated, coachCalls,
                 evalCalls, alert, det>>

\* the Mute button
toggleMute ==
  /\ isMuted' = ~isMuted
  /\ UNCHANGED <<timerVars, prompt, screenshots, transcript, coverageTags,
                 captureVars, isSpeaking, ttsCalls, playbackVars, coachCalls,
                 evalCalls, alert, det>>

(***************************************************************************)
(* Coach: askCoach (page.tsx) and POST of the coach route.                 *)
(***************************************************************************)
\* the Ask Coach button, up to the await of fetch
askCoach ==
  /\ coachCalls' = Append(coachCalls,
       [body |-> requestBody, isMuted |-> isMuted, stage |-> "sent", reply |-> NoReply])
  /\ UNCHANGED <<timerVars, prompt, screenshots, transcript, coverageTags,
                 captureVars, speechVars, evalCalls, alert, det>>

\* Object.keys(coverageTags || {}).filter(tag => coverageTags[tag])
coveredTagsOf(body) ==
  IF "coverageTags" \in body.absent THEN <<>>
  ELSE SelectSeq(allTags, LAMBDA tag : body.coverageTags[tag])

\* allTags.filter(tag => !coveredTags.includes(tag))
missingTagsCovered(body) == coveredTagsOf(body)

missingTagsOf(body) ==
  LET coveredTags == coveredTagsOf(body)
  IN  SelectSeq(allTags,
        LAMBDA tag : ~(\E i \in DOMAIN coveredTags : coveredTags[i] = tag))

\* if (!phase || !prompt || !transcript)
coachBodyInvalid(body) ==
  \/ "phase" \in body.absent \/ body.phase = ""
  \/ "prompt" \in body.absent \/ body.prompt = ""
  \/ "transcript" \in body.absent

\* the answer of POST /api/coach to `body`, the model answering `nudge`
\* (<<>>: generateContent throws)
coachPOST(body, nudge) ==
  IF coachBodyInvalid(body)
  THEN [NoReply EXCEPT !.status = 400,
                       !.error = "Missing required fields: phase, prompt, transcript"]
  ELSE LET missingTags == missingTagsOf(body)
       IN  IF nudge = <<>>
           THEN [NoReply EXCEPT !.status = 500,
                                !.error = "Failed to generate coaching nudge",
                                !.modelCalled = TRUE,
                                !.missingTags = missingTags]
           ELSE [NoReply EXCEPT !.status = 200,
                                !.nudge = nudge,
                                !.modelCalled = TRUE,
                                !.missingTags = missingTags,
                                !.coverageNudge =
                                   IF Len(missingTags) > 0
                                   THEN <<"You're missing: ">> \o join(missingTags, ", ")
                                          \o <<".">>
                                   ELSE <<>>]

\* the coach route handles call i
coachRoute(i, nudge) ==
  /\ coachCalls[i].stage = "sent"
  /\ coachCalls' = [coachCalls EXCEPT ![i].stage = "settled",
                                      ![i].body = NoBody,
                                      ![i].reply = coachPOST(coachCalls[i].body, nudge)]
  /\ UNCHANGED <<timerVars, prompt, screenshots, transcript, coverageTags,
                 captureVars, speechVars, evalCalls, alert, det>>

\* the fetch of call i rejects
coachFetchFails(i) ==
  /\ coachCalls[i].stage = "sent"
  /\ coachCalls' = [coachCalls EXCEPT ![i].stage = "settled", ![i].body = NoBody,
                                      ![i].reply = NoReply]
  /\ UNCHANGED <<timerVars, prompt, screenshots, transcript, coverageTags,
                 captureVars, speechVars, evalCalls, alert, det>>

\* the text of the Coach turn that askCoach appends for `reply`
coachTurnTextNoReminder(reply) ==
  IF reply.status # 200 THEN <<"Failed to get coaching nudge.">>
  ELSE IF reply.error # "" THEN <<"Error: ", reply.error>>
  ELSE reply.nudge

coachTurnText(reply) ==
  IF reply.status # 200 THEN <<"Failed to get coaching nudge.">>
  ELSE IF reply.error # "" THEN <<"Error: ", reply.error>>
  ELSE IF reply.coverageNudge # <<>> THEN reply.nudge \o <<" ">> \o reply.coverageNudge
  ELSE reply.nudge

\* setTranscript(prev => [...prev, { role: 'Coach', text }])
appendCoachFirst(text) == transcript' = <<Message("Coach", text)>> \o transcript

appendCoach(text) == transcript' = Append(transcript, Message("Coach", text))

\* askCoach after its awaits, for the settled call i
askCoachResumeSpeaksFailure(i) ==
  /\ coachCalls[i].stage = "settled"
  /\ CanAppend
  /\ coachCalls' = RemoveAt(coachCalls, i)
  /\ LET reply == coachCalls[i].reply
     IN  /\ appendCoach(coachTurnText(reply))
         /\ speakText(coachCalls[i].isMuted, coachTurnText(reply))
  /\ UNCHANGED <<timerVars, prompt, screenshots, coverageTags, captureVars,
                 isMuted, evalCalls, alert, det>>

askCoachResume(i) ==
  /\ coachCalls[i].stage = "settled"
  /\ CanAppend
  /\ coachCalls' = RemoveAt(coachCalls, i)
  /\ LET reply == coachCalls[i].reply
     IN  /\ appendCoach(coachTurnText(reply))
         /\ IF reply.status = 200 /\ reply.error = ""
            THEN speakText(coachCalls[i].isMuted, coachTurnText(reply))
            ELSE UNCHANGED <<isSpeaking, ttsCalls, playbackVars>>
  /\ UNCHANGED <<timerVars, prompt, screenshots, coverageTags, captureVars,
                 isMuted, evalCalls, alert, det>>


(***************************************************************************)
(* Evaluation: endAndDebrief (page.tsx) and POST of the evaluate route.    *)
(***************************************************************************)
\* the End & Debrief button, up to the await of fetch
endAndDebriefKeepsRunning ==
  /\ isRunning' = isRunning
  /\ evalCalls' = Append(evalCalls,
       [body |-> requestBody, stage |-> "sent", reply |-> NoReply])
  /\ UNCHANGED <<phase, timeLeft, ticks, prompt, screenshots, transcript,
                 coverageTags, captureVars, speechVars, coachCalls, alert, det>>

endAndDebrief ==
  /\ isRunning' = FALSE
  /\ evalCalls' = Append(evalCalls,
       [body |-> requestBody, stage |-> "sent", reply |-> NoReply])
  /\ UNCHANGED <<phase, timeLeft, ticks, prompt, screenshots, transcript,
                 coverageTags, captureVars, speechVars, coachCalls, alert, det>>

\* if (!prompt || !transcript)
evaluateBodyInvalid(body) ==
  \/ "prompt" \in body.absent \/ body.prompt = ""
  \/ "transcript" \in body.absent

\* the answer of POST /api/evaluate to `body`, the model answering `text`
\* ("": generateContent throws)
evaluatePOST(body, text) ==
  IF evaluateBodyInvalid(body)
  THEN [NoReply EXCEPT !.status = 400,
                       !.error = "Missing required fields: prompt, transcript"]
  ELSE IF text = ""
  THEN [NoReply EXCEPT !.status = 500, !.error = "Failed to evaluate interview",
                       !.modelCalled = TRUE]
  ELSE IF isJSON(text)
  THEN [NoReply EXCEPT !.status = 200, !.evaluation = text, !.modelCalled = TRUE]
  ELSE [NoReply EXCEPT !.status = 200, !.error = "Failed to parse evaluation",
                       !.raw = text, !.modelCalled = TRUE]

\* the evaluate route handles call i
evaluateRoute(i, text) ==
  /\ evalCalls[i].stage = "sent"
  /\ evalCalls' = [evalCalls EXCEPT ![i].stage = "settled",
                                    ![i].body = NoBody,
                                    ![i].reply = evaluatePOST(evalCalls[i].body, text)]
  /\ UNCHANGED <<timerVars, prompt, screenshots, transcript, coverageTags,
                 captureVars, speechVars, coachCalls, alert, det>>

\* the fetch of call i rejects
evalFetchFails(i) ==
  /\ evalCalls[i].stage = "sent"
  /\ evalCalls' = [evalCalls EXCEPT ![i].stage = "settled", ![i].body = NoBody,
                                    ![i].reply = NoReply]
  /\ UNCHANGED <<timerVars, prompt, screenshots, transcript, coverageTags,
                 captureVars, speechVars, coachCalls, alert, det>>

\* the window.alert of endAndDebrief for `reply`: its fixed text, the response
\* data it shows, and (`of`) the text the model had produced for the call
alertOf(reply) ==
  IF reply.status # 200
  THEN [text |-> "Failed to generate evaluation.", shown |-> "", of |-> ""]
  ELSE IF reply.error # ""
  THEN [text |-> "Evaluation error: ", shown |-> reply.error, of |-> reply.raw]
  ELSE [text |-> "Evaluation Complete!", shown |-> reply.evaluation,
        of |-> reply.evaluation]

debriefMessage == <<"Debrief ready. Check the alert for your scores and recommendations.">>

\* endAndDebrief after its awaits, for the settled call i
endAndDebriefResumeTwice(i) ==
  /\ evalCalls[i].stage = "settled"
  /\ evalCalls' = RemoveAt(evalCalls, i)
  /\ LET reply == evalCalls[i].reply
     IN  /\ alert' = alertOf(reply)
         /\ IF reply.status = 200 /\ reply.error = ""
            THEN /\ CanAppend
                 /\ transcript' = transcript \o <<Message("Coach", debriefMessage),
                                                  Message("Coach", debriefMessage)>>
            ELSE UNCHANGED transcript
  /\ UNCHANGED <<timerVars, prompt, screenshots, coverageTags, captureVars,
                 speechVars, coachCalls, det>>

endAndDebriefResume(i) ==
  /\ evalCalls[i].stage = "settled"
  /\ evalCalls' = RemoveAt(evalCalls, i)
  /\ LET reply == evalCalls[i].reply
     IN  /\ alert' = alertOf(reply)
         /\ IF reply.status = 200 /\ reply.error = ""
            THEN CanAppend /\ appendCoach(debriefMessage)
            ELSE UNCHANGED transcript
  /\ UNCHANGED <<timerVars, prompt, screenshots, coverageTags, captureVars,
                 speechVars, coachCalls, det>>

(***************************************************************************)
(* The coverage detector run on two strings and on their concatenation.    *)
(***************************************************************************)
DetectAlphabet == {"k", "P", "i"}

RECURSIVE StringsUpTo(_)
StringsUpTo(n) ==
  IF n = 0 THEN {<<>>}
  ELSE LET shorter == StringsUpTo(n - 1)
       IN  shorter \cup {Append(s, c) : s \in shorter, c \in DetectAlphabet}

\* the short strings, and the two halves of every split of a seed
DetectSeeds == {U_GOAL, <<"u","s","e","r">>}

DetectInputs ==
  StringsUpTo(MaxStrLen)
    \cup UNION {{SubSeq(u, 1, i) : i \in 0..Len(u)} \cup
               {SubSeq(u, i + 1, Len(u)) : i \in 0..Len(u)} : u \in DetectSeeds}

InitDetect ==
  /\ InitSession
  /\ det \in {[NoDetect EXCEPT !.a = x, !.b = y] : x \in DetectInputs, y \in DetectInputs}

runDetect ==
  /\ ~det.ran
  /\ det' = [det EXCEPT !.ran = TRUE,
                        !.onA = detectUpdates(det.a),
                        !.onB = detectUpdates(det.b),
                        !.onAB = detectUpdates(det.a \o det.b)]
  /\ UNCHANGED <<timerVars, prompt, screenshots, transcript, coverageTags,
                 captureVars, speechVars, coachCalls, evalCalls, alert>>


(***************************************************************************)
(* Requests that reach the routes from any client: one body, sent to both. *)
(***************************************************************************)
RouteBodies ==
  [phase : Phases \cup {""},
   prompt : Prompts,
   transcript : { <<>>,
                  <<Message("Coach", introMessage)>>,
                  <<Message("Coach", introMessage), Message("You", U_USER)>> },
   coverageTags : { NoCoverage,
                    [NoCoverage EXCEPT !["users"] = TRUE],
                    [tag \in TagSet |-> TRUE] },
   screenshotCount : {0},
   absent : { {}, {"phase"}, {"prompt"}, {"transcript"}, {"coverageTags"} }]

InitRoutes ==
  /\ phase = "Discovery"
  /\ timeLeft = PHASE_DURATIONS["Discovery"]
  /\ isRunning = TRUE
  /\ ticks = 0
  /\ prompt = defaultPrompt
  /\ screenshots = 0
  /\ transcript = <<Message("Coach", introMessage)>>
  /\ coverageTags = NoCoverage
  /\ isRecording = FALSE
  /\ isRecordingRef = FALSE
  /\ recognitionRef = 0
  /\ sessions = [s \in SessionIds |-> "none"]
  /\ segments = [s \in SessionIds |-> 0]
  /\ heard = [s \in SessionIds |-> <<>>]
  /\ spoken = <<>>
  /\ isSpeaking = TRUE
  /\ isMuted = FALSE
  /\ ttsCalls = <<[text |-> introMessage, stage |-> "sent", status |-> 0]>>
  /\ audio = NoAudio
  /\ objectUrls = {}
  /\ urlsCreated = 0
  /\ \E body \in RouteBodies :
       /\ coachCalls = <<[body |-> body, isMuted |-> FALSE, stage |-> "sent",
                          reply |-> NoReply]>>
       /\ evalCalls = <<[body |-> body, stage |-> "sent", reply |-> NoReply]>>
  /\ alert = NoAlert
  /\ det = NoDetect

(***************************************************************************)
(* Specifications.  Next composes every handler.  The properties are       *)
(* checked on restrictions of it to the handlers whose events they are     *)
(* about: a restriction is the session with the other buttons left alone.  *)
(* The bounds on outstanding calls and on interval callbacks are guards of *)
(* the composition, not of the handlers.                                   *)
(***************************************************************************)
\* the interval callback, at most MaxTicks times per countdown
TimerTickBounded == ticks < MaxTicks /\ TimerTick

PhaseButton == \E p \in Phases : changePhase(p)

TextEntry == \E text \in TextInputs : handleTextSubmit(text)

SpeechResult == \E s \in SessionIds, text \in Utterances : onresult(s, text)

SpeechError == \E s \in SessionIds : onerror(s)

\* the end event of an object, restarted at most MaxSegments - 1 times
SpeechEnd ==
  \E s \in SessionIds : (isRecordingRef => segments[s] < MaxSegments) /\ onend(s)

\* an utterance, each object holding at most MaxPending results
Utterance ==
  \E text \in Utterances :
    /\ \A s \in SessionIds : Len(heard[s]) < MaxPending
    /\ utter(text)

\* the backend delivers to an object the oldest result it holds for it
SpeechResultHeard ==
  \E s \in SessionIds : heard[s] # <<>> /\ onresult(s, Head(heard[s]))

\* the end event of an object: the backend ends a segment, or answers stop(),
\* once it has delivered the results it holds; after an error it drops them
SpeechEndHeard ==
  \E s \in SessionIds :
    /\ sessions[s] \in {"listening", "stopping"} => heard[s] = <<>>
    /\ isRecordingRef => segments[s] < MaxSegments
    /\ onend(s)

AskCoachButton == Len(coachCalls) < MaxInFlight /\ askCoach

CoachRouteReplies ==
  \E i \in DOMAIN coachCalls, nudge \in Nudges \cup {<<>>} : coachRoute(i, nudge)

CoachFetchFails == \E i \in DOMAIN coachCalls : coachFetchFails(i)

CoachReplyHandled == \E i \in DOMAIN coachCalls : askCoachResume(i)

EndButton == Len(evalCalls) < MaxInFlight /\ endAndDebrief

EvaluateRouteReplies ==
  \E i \in DOMAIN evalCalls, text \in ModelTexts \cup {""} : evaluateRoute(i, text)

EvalFetchFails == \E i \in DOMAIN evalCalls : evalFetchFails(i)

EvalReplyHandled == \E i \in DOMAIN evalCalls : endAndDebriefResume(i)

PromptEdited == \E value \in Prompts : setPrompt(value)

\* the Ask Coach button, pressed again while a call is outstanding
AskCoachAgain == Len(coachCalls) < MaxOverlap /\ askCoach

\* the End & Debrief button, pressed again while a call is outstanding
EndAgain == Len(evalCalls) < MaxOverlap /\ endAndDebrief

TtsRouteReplies == \E i \in DOMAIN ttsCalls, generated \in BOOLEAN : ttsRoute(i, generated)

TtsFetchFails == \E i \in DOMAIN ttsCalls : ttsFetchFails(i)

TtsReplyHandled == \E i \in DOMAIN ttsCalls, played \in BOOLEAN : speakTextResume(i, played)

\* every handler of the page and both routes
Next ==
  \/ TimerTickBounded
  \/ PhaseButton
  \/ PromptEdited
  \/ handleScreenshotUpload
  \/ toggleMute
  \/ TextEntry
  \/ startRecording
  \/ stopRecording
  \/ SpeechResult
  \/ SpeechError
  \/ SpeechEnd
  \/ AskCoachButton
  \/ CoachRouteReplies
  \/ CoachFetchFails
  \/ CoachReplyHandled
  \/ EndButton
  \/ EvaluateRouteReplies
  \/ EvalFetchFails
  \/ EvalReplyHandled
  \/ Utterance
  \/ TtsRouteReplies
  \/ TtsFetchFails
  \/ TtsReplyHandled
  \/ onended

Spec == Init /\ [][Next]_vars

\* the countdown left alone: no phase button, no End & Debrief
NextClock == TimerTick

SpecClock == Init /\ [][NextClock]_vars

\* the countdown with the phase buttons and End & Debrief
NextTimer ==
  \/ TimerTick
  \/ PhaseButton
  \/ EndButton

SpecTimer == Init /\ [][NextTimer]_vars

\* participant turns, coach requests, the clock, the phase buttons, End & Debrief
NextCoverage ==
  \/ TextEntry
  \/ startRecording
  \/ SpeechResult
  \/ AskCoachButton
  \/ CoachRouteReplies
  \/ CoachFetchFails
  \/ CoachReplyHandled
  \/ TimerTickBounded
  \/ PhaseButton
  \/ EndButton

SpecCoverage == Init /\ [][NextCoverage]_vars

\* everything that appends to the transcript
NextTranscript ==
  \/ TextEntry
  \/ startRecording
  \/ SpeechResult
  \/ AskCoachButton
  \/ CoachRouteReplies
  \/ CoachFetchFails
  \/ CoachReplyHandled
  \/ EndButton
  \/ EvaluateRouteReplies
  \/ EvalFetchFails
  \/ EvalReplyHandled

SpecTranscript == Init /\ [][NextTranscript]_vars

\* speech capture
NextCapture ==
  \/ startRecording
  \/ stopRecording
  \/ SpeechResult
  \/ SpeechError
  \/ SpeechEnd

SpecCapture == Init /\ [][NextCapture]_vars

\* speech capture with the participant's utterances, the backend without errors
NextListen ==
  \/ startRecording
  \/ stopRecording
  \/ Utterance
  \/ SpeechResultHeard
  \/ SpeechEndHeard

SpecListen == Init /\ [][NextListen]_vars

\* coach nudges and their playback, the Mute button, End & Debrief
NextSpeech ==
  \/ toggleMute
  \/ AskCoachButton
  \/ CoachRouteReplies
  \/ CoachFetchFails
  \/ CoachReplyHandled
  \/ TtsRouteReplies
  \/ TtsFetchFails
  \/ TtsReplyHandled
  \/ onended
  \/ EndButton

SpecSpeech == Init /\ [][NextSpeech]_vars

\* speech capture with the participant's utterances, and End & Debrief
NextEndCapture ==
  \/ startRecording
  \/ stopRecording
  \/ Utterance
  \/ SpeechResultHeard
  \/ SpeechEndHeard
  \/ EndButton

SpecEndCapture == Init /\ [][NextEndCapture]_vars

\* coach and evaluation requests with the buttons pressed again before the answer
NextOverlap ==
  \/ AskCoachAgain
  \/ CoachRouteReplies
  \/ CoachFetchFails
  \/ CoachReplyHandled
  \/ EndAgain
  \/ EvaluateRouteReplies
  \/ EvalFetchFails
  \/ EvalReplyHandled

SpecOverlap == Init /\ [][NextOverlap]_vars

\* End & Debrief and its evaluation request, with the clock and the phase buttons
NextDebrief ==
  \/ EndButton
  \/ EvaluateRouteReplies
  \/ EvalFetchFails
  \/ EvalReplyHandled
  \/ PhaseButton
  \/ TimerTickBounded

SpecDebrief == Init /\ [][NextDebrief]_vars

\* the detector by itself
SpecDetect == InitDetect /\ [][runDetect]_vars

\* the routes by themselves
NextRoutes ==
  \/ \E nudge \in Nudges \cup {<<>>} : coachRoute(1, nudge)
  \/ \E text \in ModelTexts \cup {""} : evaluateRoute(1, text)

SpecRoutes == InitRoutes /\ [][NextRoutes]_vars


(***************************************************************************)
(* Properties.                                                             *)
(***************************************************************************)
\* C1 (SpecClock): with the countdown left alone, after exactly 1200 interval
\* callbacks the phase is Heads-down with 1500 s left, and after 3600 the timer
\* has stopped in Presentation with 0 s left.
C1_ClockRun ==
  /\ ticks = 0 => (phase = "Discovery" /\ timeLeft = 1200 /\ isRunning)
  /\ ticks = 1200 => (phase = "Heads-down" /\ timeLeft = 1500 /\ isRunning)
  /\ ticks = 3600 => (phase = "Presentation" /\ timeLeft = 0 /\ ~isRunning)

C1_Witness == ticks = 3600 /\ ~isRunning

\* the step moves a non-terminal phase to the next one and keeps the timer running
C2_Advances ==
  /\ phase = "Discovery" => phase' = "Heads-down"
  /\ phase = "Heads-down" => phase' = "Presentation"
  /\ phase # "Presentation"
  /\ isRunning'

\* the step stops the timer in Presentation
C2_Stops == phase = "Presentation" /\ phase' = phase /\ ~isRunning'

\* C2 (SpecTimer): the time left is always between 0 and the full duration of the
\* active phase, and the callback that runs when the countdown expires (one
\* second or less left) either advances a non-terminal phase and keeps running,
\* or stops the timer in Presentation: exactly one of the two.
C2_TimerExpiry ==
  /\ [](timeLeft >= 0 /\ timeLeft <= PHASE_DURATIONS[phase])
  /\ [][(isRunning /\ ticks' = ticks + 1 /\ timeLeft <= 1)
          => ((C2_Advances /\ ~C2_Stops) \/ (C2_Stops /\ ~C2_Advances))]_vars

C2_Witness == phase = "Presentation" /\ timeLeft = 0 /\ ~isRunning /\ ticks = 900

\* C3 (SpecTimer): a phase button can be pressed in every reachable state, and
\* pressing it sets the phase to the one requested, the time left to that
\* phase's full duration and running to true.
C3_ManualPhase ==
  /\ [](\A p \in Phases : ENABLED changePhase(p))
  /\ [][\A p \in Phases :
          changePhase(p) => (phase' = p /\ timeLeft' = PHASE_DURATIONS[p] /\ isRunning')]_vars

\* a phase button pressed after End & Debrief had stopped the timer in
\* Presentation, the evaluation still outstanding: running again, in another phase
C3_Witness ==
  /\ isRunning /\ ticks = 0 /\ timeLeft = PHASE_DURATIONS[phase]
  /\ evalCalls # <<>> /\ evalCalls[1].body.phase = "Presentation"
  /\ evalCalls[1].body.phase # phase

\* C4 (SpecCoverage): a coverage flag that is true stays true over every step
\* (participant turns from speech and from the text box, coach requests and
\* replies, interval callbacks, phase buttons, End & Debrief).
C4_CoverageMonotonic ==
  [][\A tag \in TagSet : coverageTags[tag] => coverageTags'[tag]]_vars

\* all flags set by one turn, and still set after a later turn that names one topic
C4_Witness ==
  /\ Len(transcript) = 3
  /\ transcript[2] = Message("You", U_ALL)
  /\ transcript[3] = Message("You", U_USER)
  /\ \A tag \in TagSet : coverageTags[tag]


\* C5 as stated (SpecDetect): the keys detected on the concatenation of two
\* strings are exactly the union of the keys detected on each.
C5_ConcatIsUnion == det.ran => det.onAB = det.onA \cup det.onB

\* a keyword of `tag` begins in a and ends in b (case ignored)
C5_Straddles(tag, a, b) ==
  \E kw \in Keywords[tag], n \in 1..Len(a) :
    /\ n < Len(kw)
    /\ Len(kw) - n <= Len(b)
    /\ \A j \in 1..n : toLowerChar(a[Len(a) - n + j]) = kw[j]
    /\ \A j \in 1..(Len(kw) - n) : toLowerChar(b[j]) = kw[n + j]

\* C5 amended (SpecDetect): the keys detected on the concatenation include the
\* union of the keys detected on each string, and every further key has a
\* keyword that begins in the first string and ends in the second.
C5_ConcatIncludesUnion ==
  det.ran =>
    /\ (det.onA \cup det.onB) \subseteq det.onAB
    /\ \A tag \in det.onAB \ (det.onA \cup det.onB) : C5_Straddles(tag, det.a, det.b)

\* "k" and "Pi" match nothing, "kPi" matches metrics
C5_Witness ==
  /\ det.ran
  /\ det.a = <<"k">> /\ det.b = <<"P", "i">>
  /\ det.onA = {} /\ det.onB = {}
  /\ det.onAB = {"metrics"}

\* C6 (SpecTranscript): every step leaves the turns already in the transcript in
\* place and unchanged and adds at most one turn, at the end.
C6_AppendOnly ==
  [][/\ Len(transcript') \in {Len(transcript), Len(transcript) + 1}
     /\ SubSeq(transcript', 1, Len(transcript)) = transcript]_vars

\* a spoken turn, then the evaluation's confirmation turn, then the nudge of a
\* coach request that was sent before either
C6_Witness ==
  /\ Len(transcript) = 3
  /\ transcript[2] = Message("You", U_USER)
  /\ transcript[3] = Message("Coach", debriefMessage)
  /\ sessions[1] = "listening"
  /\ \E i \in DOMAIN coachCalls :
       coachCalls[i].stage = "settled" /\ coachCalls[i].reply.status = 200

\* the transcript of `body` is empty, or its phase or prompt is missing
C7_SnapshotInvalid(body) ==
  \/ "transcript" \in body.absent \/ body.transcript = <<>>
  \/ "phase" \in body.absent \/ body.phase = ""
  \/ "prompt" \in body.absent \/ body.prompt = ""

\* C7 (SpecRoutes): a coach request whose transcript is empty, or whose phase or
\* prompt is missing, is answered with the validation error and no model call.
C7_InvalidSnapshotRejected ==
  [][\A i \in DOMAIN coachCalls :
       (/\ coachCalls[i].stage = "sent"
        /\ coachCalls'[i].stage = "settled"
        /\ C7_SnapshotInvalid(coachCalls[i].body))
       => (coachCalls'[i].reply.status = 400 /\ ~coachCalls'[i].reply.modelCalled)]_vars

\* C8 (SpecTranscript): when the evaluator's text does not have the expected
\* structure (no JSON, or JSON without the rubric), the alert of endAndDebrief is
\* the parse error and shows that text.
C8_ParseErrorCarriesRaw ==
  (alert.of # "" /\ ~hasRubric(alert.of))
    => (alert.text = "Evaluation error: " /\ alert.shown = alert.of)

C9_FixedOrder == <<"framing", "constraints", "users", "ideation", "systems",
                   "metrics", "accessibility">>

C9_Position(tag) == CHOOSE k \in DOMAIN C9_FixedOrder : C9_FixedOrder[k] = tag

\* C9 (SpecTranscript): when the coach route calls the model for a request, the
\* missing topics it reports are exactly the keys whose flag is not true in the
\* coverage state sent, each once, in the fixed order; after the single turn
\* "Our main user is a busy parent" they are framing, constraints, ideation,
\* systems, metrics, accessibility.
C9_MissingTopics ==
  [][\A i \in DOMAIN coachCalls :
       (/\ coachCalls[i].stage = "sent"
        /\ i \in DOMAIN coachCalls'
        /\ coachCalls'[i].stage = "settled"
        /\ coachCalls'[i].reply.modelCalled)
       => LET sent == coachCalls[i].body
              missing == coachCalls'[i].reply.missingTags
          IN  /\ {missing[k] : k \in DOMAIN missing}
                   = {tag \in TagSet : ~sent.coverageTags[tag]}
              /\ \A j, k \in DOMAIN missing :
                   j < k => C9_Position(missing[j]) < C9_Position(missing[k])
              /\ (sent.transcript = <<Message("Coach", introMessage), Message("You", U_USER)>>)
                   => missing = <<"framing", "constraints", "ideation", "systems",
                                  "metrics", "accessibility">>]_vars

\* the route has answered the request sent after that single turn
C9_Witness ==
  /\ transcript = <<Message("Coach", introMessage), Message("You", U_USER)>>
  /\ \E i \in DOMAIN coachCalls :
       /\ coachCalls[i].stage = "settled"
       /\ coachCalls[i].reply.modelCalled
       /\ coachCalls[i].reply.missingTags
            = <<"framing", "constraints", "ideation", "systems", "metrics", "accessibility">>

\* C10 (SpecCapture): a turn is appended by speech capture only while recording
\* is on, that is between startRecording and the next stopRecording.
C10_NoTurnAfterStop ==
  [][transcript' # transcript => isRecordingRef]_vars

\* C11 (SpecCapture): at most one SpeechRecognition object is listening at any
\* time, whatever the order of startRecording, stopRecording, end events and
\* error events.
C11_OneListening ==
  Cardinality({s \in SessionIds : sessions[s] = "listening"}) <= 1

\* C12 (SpecCapture): an error event turns the recording indicator off, and the
\* end event of the object that had the error does not restart it.
C12_ErrorStopsCapture ==
  /\ [][\A s \in SessionIds : onerror(s) => ~isRecording']_vars
  /\ [][\A s \in SessionIds :
          (sessions[s] = "aborting" /\ onend(s)) => sessions'[s] # "listening"]_vars

\* C13 (SpecCapture): when the end event reaches the object that startRecording
\* made current, while it is listening and the recording flag is set (no stop,
\* no error), the object is started again and listens, it stays the current
\* one, and the recording indicator is on before and after.
C13_SegmentEndRestarts ==
  [][\A s \in SessionIds :
       (onend(s) /\ sessions[s] = "listening" /\ isRecordingRef /\ recognitionRef = s)
         => /\ sessions'[s] = "listening"
            /\ segments'[s] = segments[s] + 1
            /\ recognitionRef' = s
            /\ isRecording /\ isRecording' /\ isRecordingRef']_vars

C13_Witness ==
  \E s \in SessionIds :
    /\ recognitionRef = s /\ sessions[s] = "listening" /\ segments[s] = 3
    /\ isRecording /\ isRecordingRef

\* the texts of the Participant turns, in transcript order
ParticipantTexts ==
  LET you == SelectSeq(transcript, LAMBDA m : m.role = "You")
  IN  [i \in 1..Len(you) |-> you[i].text]

\* C14 (SpecListen): the Participant turns are the utterances completed while
\* capture was listening, each once and in order: always a prefix of them,
\* and all of them once the backend holds no undelivered result.
C14_OneTurnPerUtterance ==
  /\ Len(ParticipantTexts) <= Len(spoken)
  /\ ParticipantTexts = SubSeq(spoken, 1, Len(ParticipantTexts))
  /\ (\A s \in SessionIds : heard[s] = <<>>) => ParticipantTexts = spoken

\* C15 (SpecSpeech): when the session is muted at the moment askCoach goes on
\* to speak a nudge, no synthesis request is issued and the speaking flag does
\* not change, also when the mute came while the coach request was in flight.
C15_MutedSpeakIsNoOp ==
  [][\A i \in DOMAIN coachCalls :
       (isMuted /\ askCoachResume(i)) => UNCHANGED <<isSpeaking, ttsCalls>>]_vars

\* C16 (SpecSpeech): whenever the audio of a speak call is playing, the
\* speaking flag is true.
C16_SpeakingWhilePlaying == audio.playing => isSpeaking

\* C17 (SpecSpeech): at most one object URL created for a synthesis response
\* is unreleased at any time.
C17_OneLiveResource == Cardinality(objectUrls) <= 1

\* endAndDebrief has been invoked: its call is outstanding or has been answered
sessionEnded == evalCalls # <<>> \/ alert.text # ""

\* C18 (SpecSpeech): a coach response handled after the session has been ended
\* appends no turn and starts no synthesis, and a synthesis response handled
\* after the session has been ended starts no playback and changes no flag.
C18_LateResponsesDropped ==
  /\ [][\A i \in DOMAIN coachCalls :
          (sessionEnded /\ askCoachResume(i))
            => UNCHANGED <<transcript, isSpeaking, ttsCalls>>]_vars
  /\ [][\A i \in DOMAIN ttsCalls, played \in BOOLEAN :
          (sessionEnded /\ speakTextResume(i, played))
            => UNCHANGED <<isSpeaking, audio, objectUrls>>]_vars

\* C19 (SpecEndCapture): endAndDebrief sets running to false and turns the
\* recording indicator off, and once it has been invoked no Participant turn
\* is appended (speech is the only source of Participant turns here).
C19_EndStopsCapture ==
  /\ [][endAndDebrief => (~isRunning' /\ ~isRecording')]_vars
  /\ [][sessionEnded => ParticipantTexts' = ParticipantTexts]_vars

\* the calls of `calls` whose response has not arrived
Outstanding(calls) == {i \in DOMAIN calls : calls[i].stage = "sent"}

\* C20 (SpecOverlap): at most one coach call and at most one evaluation call
\* is outstanding at any time.
C20_OneOutstanding ==
  /\ Cardinality(Outstanding(coachCalls)) <= 1
  /\ Cardinality(Outstanding(evalCalls)) <= 1

\* the settled evaluation call i was answered with an evaluation
evalSucceeded(i) ==
  /\ evalCalls[i].stage = "settled"
  /\ evalCalls[i].reply.status = 200
  /\ evalCalls[i].reply.error = ""

\* a step of an evaluation request: the button, the route, the fetch failing,
\* or the page handling the answer
evalStep ==
  \/ endAndDebrief
  \/ \E i \in DOMAIN evalCalls :
       \/ \E text \in ModelTexts \cup {""} : evaluateRoute(i, text)
       \/ evalFetchFails(i)
       \/ endAndDebriefResume(i)

\* C21 as stated (SpecDebrief): when the page handles a successful evaluation
\* answer, running is false afterwards and exactly one confirmation Coach turn
\* is appended; no step of an evaluation request sets running to true.
C21_SuccessStopsTimer ==
  /\ [][\A i \in DOMAIN evalCalls :
          (evalSucceeded(i) /\ endAndDebriefResume(i))
            => /\ ~isRunning'
               /\ transcript' = Append(transcript, Message("Coach", debriefMessage))]_vars
  /\ [][evalStep => (isRunning' => isRunning)]_vars

\* C21 as the code has it (SpecDebrief): endAndDebrief sets running to false
\* when it is invoked; when the page handles a successful evaluation answer it
\* appends exactly one confirmation Coach turn and leaves running as it is;
\* no step of an evaluation request sets running to true.
C21_EndStopsTimerSuccessConfirms ==
  /\ [][endAndDebrief => ~isRunning']_vars
  /\ [][\A i \in DOMAIN evalCalls :
          (evalSucceeded(i) /\ endAndDebriefResume(i))
            => /\ isRunning' = isRunning
               /\ transcript' = Append(transcript, Message("Coach", debriefMessage))]_vars
  /\ [][evalStep => (isRunning' => isRunning)]_vars

C21_Witness ==
  /\ alert.text = "Evaluation Complete!"
  /\ evalCalls = <<>>
  /\ transcript = <<Message("Coach", introMessage), Message("Coach", debriefMessage)>>
  /\ isRunning /\ phase = "Heads-down"

\* the settled evaluation call i failed: the fetch rejected, the status is no
\* success, or the answer is an error
evalFailed(i) == evalCalls[i].stage = "settled" /\ ~evalSucceeded(i)

\* C28 (SpecDebrief): endAndDebrief sets running to false and leaves phase and
\* remaining; while running is false every step but a phase button leaves
\* running, phase and remaining, whatever the outcome of the evaluation
\* request; handling a failed evaluation appends no turn.
C28_EndFreezesClock ==
  /\ [][endAndDebrief => (~isRunning' /\ phase' = phase /\ timeLeft' = timeLeft)]_vars
  /\ [][(~isRunning /\ ~(\E p \in Phases : changePhase(p)))
          => UNCHANGED <<phase, timeLeft, isRunning>>]_vars
  /\ [][\A i \in DOMAIN evalCalls :
          (evalFailed(i) /\ endAndDebriefResume(i)) => transcript' = transcript]_vars

C28_Witness ==
  /\ alert.text \in {"Failed to generate evaluation.", "Evaluation error: "}
  /\ evalCalls = <<>>
  /\ ~isRunning /\ phase = "Discovery" /\ ticks = 2
  /\ timeLeft = PHASE_DURATIONS["Discovery"] - 2
  /\ transcript = <<Message("Coach", introMessage)>>

\* the calls of `calls` that are outstanding before and after the step keep
\* the body they were sent with
SentBodiesKept(calls, callsAfter) ==
  \A i \in DOMAIN calls :
    (/\ calls[i].stage = "sent"
     /\ i \in DOMAIN callsAfter
     /\ callsAfter[i].stage = "sent") => callsAfter[i].body = calls[i].body

\* C22 (SpecCoverage): a coach or evaluation request is sent with the phase,
\* prompt, transcript, coverage and screenshot count of the moment of the
\* click, and while it is outstanding no step changes the body it was sent
\* with, whatever turns, flags or phase changes the step applies.
C22_SnapshotImmutable ==
  /\ [][askCoach => coachCalls'[Len(coachCalls')].body = requestBody]_vars
  /\ [][endAndDebrief => evalCalls'[Len(evalCalls')].body = requestBody]_vars
  /\ [][SentBodiesKept(coachCalls, coachCalls')]_vars
  /\ [][SentBodiesKept(evalCalls, evalCalls')]_vars

C22_Witness ==
  /\ \E i \in DOMAIN coachCalls :
       /\ coachCalls[i].stage = "sent"
       /\ coachCalls[i].body.transcript # transcript
       /\ coachCalls[i].body.coverageTags # coverageTags
       /\ coachCalls[i].body.phase # phase
  /\ \E i \in DOMAIN evalCalls :
       /\ evalCalls[i].stage = "sent"
       /\ evalCalls[i].body.transcript # transcript

\* an interval callback taken while running in a phase other than Presentation
tickNonTerminal == isRunning /\ ticks' = ticks + 1 /\ phase # "Presentation"

\* the phase that follows `ph` in the fixed order
nextPhase(ph) == IF ph = "Discovery" THEN "Heads-down" ELSE "Presentation"

\* C23 as stated (SpecClock): in a non-terminal phase a tick taken with 1 s or
\* more left takes 1 s off and leaves the phase, and the phase advances, with
\* the next phase's full duration left, only on a tick taken with 0 s left.
C23_AdvanceAtZero ==
  [][tickNonTerminal =>
       /\ timeLeft >= 1 => (timeLeft' = timeLeft - 1 /\ phase' = phase)
       /\ phase' # phase => (timeLeft = 0 /\ timeLeft' = PHASE_DURATIONS[phase'])]_vars

\* C23 as the code has it (SpecClock): in a non-terminal phase a tick taken with
\* 2 s or more left takes 1 s off and leaves the phase; the tick taken with 1 s
\* left advances to the next phase with its full duration left; the time left
\* in a non-terminal phase is never 0.
C23_AdvanceAtOne ==
  /\ [](phase # "Presentation" => timeLeft >= 1)
  /\ [][tickNonTerminal =>
          /\ timeLeft >= 2 => (timeLeft' = timeLeft - 1 /\ phase' = phase)
          /\ timeLeft <= 1 => /\ phase' = nextPhase(phase)
                              /\ timeLeft' = PHASE_DURATIONS[nextPhase(phase)]
                              /\ isRunning']_vars

C23_Witness ==
  /\ phase = "Presentation" /\ timeLeft = PHASE_DURATIONS["Presentation"]
  /\ ticks = 2700 /\ isRunning

\* the settled coach call i was answered with a nudge
coachSucceeded(i) ==
  /\ coachCalls[i].stage = "settled"
  /\ coachCalls[i].reply.status = 200
  /\ coachCalls[i].reply.error = ""

\* the reminder for the topics `missing`
reminderFor(missing) == <<"You're missing: ">> \o join(missing, ", ") \o <<".">>

\* C24 (SpecTranscript): the route adds the reminder to its answer exactly when
\* some topic of the coverage state it was sent is not covered; the page,
\* handling the answer of a coach request, appends exactly one turn, a Coach
\* turn, and on success its text is the nudge, followed in the same turn by
\* the reminder when there is one.
C24_OneCoachTurn ==
  /\ [][\A i \in DOMAIN coachCalls :
          (/\ coachCalls[i].stage = "sent"
           /\ i \in DOMAIN coachCalls'
           /\ coachCalls'[i].stage = "settled"
           /\ coachCalls'[i].reply.status = 200)
            => LET sent == coachCalls[i].body.coverageTags
                   missing == {tag \in TagSet : ~sent[tag]}
                   reply == coachCalls'[i].reply
               IN  /\ missing = {} => reply.coverageNudge = <<>>
                   /\ missing # {} =>
                        /\ reply.coverageNudge = reminderFor(reply.missingTags)
                        /\ {reply.missingTags[k] : k \in DOMAIN reply.missingTags} = missing]_vars
  /\ [][\A i \in DOMAIN coachCalls :
          askCoachResume(i)
            => /\ Len(transcript') = Len(transcript) + 1
               /\ SubSeq(transcript', 1, Len(transcript)) = transcript
               /\ transcript'[Len(transcript')].role = "Coach"
               /\ coachSucceeded(i) =>
                    LET reply == coachCalls[i].reply
                    IN  transcript'[Len(transcript')].text =
                          IF reply.coverageNudge = <<>> THEN reply.nudge
                          ELSE reply.nudge \o <<" ">> \o reply.coverageNudge]_vars

C24_Witness ==
  /\ Len(transcript) = 3
  /\ transcript[2] = Message("You", U_ALL)
  /\ \E nudge \in Nudges : transcript[3] = Message("Coach", nudge)
  /\ coachCalls = <<>>

\* the settled coach call i failed: the fetch rejected, the status is no
\* success, or the answer is an error
coachFailed(i) == coachCalls[i].stage = "settled" /\ ~coachSucceeded(i)

\* C25 (SpecCoverage): when the page handles a failed coach request it appends
\* one Coach turn reporting the failure, issues no synthesis request, and
\* leaves the speaking flag, phase, remaining, running, the coverage flags
\* and the earlier turns.
C25_CoachFailureReported ==
  [][\A i \in DOMAIN coachCalls :
       (coachFailed(i) /\ askCoachResume(i))
         => /\ transcript' = Append(transcript, Message("Coach",
                 IF coachCalls[i].reply.status # 200
                 THEN <<"Failed to get coaching nudge.">>
                 ELSE <<"Error: ", coachCalls[i].reply.error>>))
            /\ UNCHANGED <<ttsCalls, isSpeaking, phase, timeLeft, isRunning,
                           coverageTags>>]_vars

C25_Witness ==
  /\ transcript = <<Message("Coach", introMessage), Message("You", U_USER),
                    Message("Coach", <<"Failed to get coaching nudge.">>)>>
  /\ coverageTags["users"] /\ phase = "Heads-down" /\ ticks = 1 /\ isRunning
  /\ Len(ttsCalls) = 1
  /\ coachCalls = <<>>

\* C26 (SpecSpeech): when speakText goes on after a failed synthesis request
\* or its audio.play() fails, the speaking flag is false afterwards and no new
\* synthesis request is issued; and whenever no synthesis request is pending
\* and no audio is playing, the speaking flag is false.
C26_SpeakingNotStuck ==
  /\ []((ttsCalls = <<>> /\ ~audio.playing) => ~isSpeaking)
  /\ [][\A i \in DOMAIN ttsCalls, played \in BOOLEAN :
          (speakTextResume(i, played) /\ (ttsCalls[i].status # 200 \/ ~played))
            => (~isSpeaking' /\ Len(ttsCalls') = Len(ttsCalls) - 1)]_vars

C26_Witness ==
  /\ ttsCalls = <<>> /\ ~audio.playing /\ ~isSpeaking
  /\ urlsCreated = 1 /\ audio.src = 1 /\ objectUrls = {1}
  /\ Len(transcript) = 3

\* the topics whose keywords occur in some Participant turn of the transcript
coveredByTurns ==
  UNION {detectUpdates(transcript[k].text) :
           k \in {j \in DOMAIN transcript : transcript[j].role = "You"}}

\* C27 (SpecTranscript): a coverage flag is true exactly when some Participant
\* turn of the transcript contains one of the topic's keywords, and a step
\* that appends a Coach turn leaves the flags.
C27_CoverageIsOrOfTurns ==
  /\ [](\A tag \in TagSet : coverageTags[tag] <=> tag \in coveredByTurns)
  /\ [][(/\ Len(transcript') = Len(transcript) + 1
          /\ transcript'[Len(transcript')].role = "Coach")
          => coverageTags' = coverageTags]_vars

C27_Witness ==
  /\ Len(transcript) = 3
  /\ transcript[2].role = "Coach"
  /\ transcript[2].text # <<"Failed to get coaching nudge.">>
  /\ transcript[3] = Message("You", U_USER)
  /\ coverageTags = [NoCoverage EXCEPT !["users"] = TRUE]

====
